---- MODULE Spec2Model ----
(***************************************************************************)
(* A model of libpassim's PassimItem (libpassim/passim-item.c): the        *)
(* private fields of one item, its accessors, the loader                   *)
(* passim_item_load_filename, the GVariant codec passim_item_to_variant /  *)
(* passim_item_from_variant and finalization, together with the reference  *)
(* counts of the GFile and GDateTime objects the item shares with its      *)
(* caller.                                                                 *)
(*                                                                         *)
(* Representation.  A gchar* is NULL or Str(s) for a string s; a GFile* or *)
(* GDateTime* is 0 (NULL) or the identity of an object of the heap.  A     *)
(* filename is the sequence of its '/'-separated elements: "/tmp/a.bin"    *)
(* is <<"", "tmp", "a.bin">>, "b/" is <<"b", "">> and "/" is <<"", "">>.   *)
(***************************************************************************)
EXTENDS Integers, Sequences, FiniteSets, TLC

VARIABLES
    priv,       \* PassimItemPrivate of the item under observation
    alive,      \* TRUE from passim_item_new until passim_item_finalize
    gfile,      \* heap of GFile objects: identity -> [ref_count, path]
    gdatetime,  \* heap of GDateTime objects: identity -> reference count
    variant,    \* the GVariant last produced or received by the caller
    item,       \* the PassimItemPrivate last returned by passim_item_from_variant
    last        \* the call made last, with its arguments and its result

vars == <<priv, alive, gfile, gdatetime, variant, item, last>>

-----------------------------------------------------------------------------
(* Bounds of the model *)

\* GFile objects the caller created itself and keeps its own reference to
NumCallerFiles == 1
\* GFile objects g_file_new_for_path may have allocated at the same time
MaxLoaderFiles == 2
\* GDateTime objects the caller created itself and keeps its own reference to
NumCallerDateTimes == 1
\* GDateTime objects g_file_info_get_creation_date_time may have allocated
MaxLoaderDateTimes == 2
\* references to one GDateTime the model follows (an object the item has lost
\* track of keeps its reference, so the count of a reused object can grow)
MaxRefCount == 2

-----------------------------------------------------------------------------
(* Values *)

NULL == <<>>
Str(s) == <<s>>

\* guint32 values the callers pass to the numeric setters and put on the wire
\* (the largest number TLC can represent is 2^31 - 1; the item does no
\* arithmetic on them)
U32Samples == {2147483647}
WireU32Samples == {0, 7, 2147483647}

\* strings on the wire and in the items that are encoded
StringSamples == {"", "abc"}

\* arguments the callers pass to the string setters
StringArgs == {NULL, Str("abc")}

\* filenames handed to the loader: "/tmp/a.bin" and "b/"
Filenames == {<<"", "tmp", "a.bin">>, <<"b", "">>}

\* contents g_file_get_contents may read
Contents == {"", "hello"}

CallerFiles == 1..NumCallerFiles
FileIds == 1..(NumCallerFiles + MaxLoaderFiles)
CallerDateTimes == 1..NumCallerDateTimes
DateTimeIds == 1..(NumCallerDateTimes + MaxLoaderDateTimes)

\* the path each caller-created GFile was made for
CallerFilePath(f) == <<"", "tmp", "a.bin">>

NoPath == <<>>

-----------------------------------------------------------------------------
(* GLib helpers, as far as the item uses them *)

\* g_strcmp0: NULL-safe comparison; only its being zero is ever tested
g_strcmp0(a, b) == IF a = b THEN 0 ELSE 1

\* g_strdup: a copy of the string, NULL for NULL
g_strdup(s) == s

\* g_path_get_basename: trailing separators are dropped, then the last element
\* is returned; "." for the empty string and "/" for a string of separators
RECURSIVE StripTrailing(_)
StripTrailing(p) ==
    IF Len(p) > 0 /\ p[Len(p)] = ""
    THEN StripTrailing(SubSeq(p, 1, Len(p) - 1))
    ELSE p

g_path_get_basename(filename) ==
    LET stripped == StripTrailing(filename)
    IN  IF filename = <<"">> THEN Str(".")
        ELSE IF stripped = <<>> THEN Str("/")
        ELSE Str(stripped[Len(stripped)])

\* g_compute_checksum_for_data(G_CHECKSUM_SHA256, ...): lowercase hex digest
g_compute_checksum_for_data(buf) ==
    IF buf = "hello"
    THEN Str("2cf24dba5fb0a30e26e83b2ac5b9e29e1b161e5c1fa7425e73043362938b9824")
    ELSE Str("e3b0c44298fc1c149afbf4c8996fb92427ae41e4649b934ca495991b7852b855")

\* g_object_ref on a GFile (nothing happens for NULL, which the callers test)
file_ref(heap, f) ==
    IF f = 0 THEN heap
    ELSE [heap EXCEPT ![f].ref_count = @ + 1]

\* g_object_unref on a GFile: the object is freed with its last reference
file_unref(heap, f) ==
    IF f = 0 THEN heap
    ELSE IF heap[f].ref_count = 1
         THEN [heap EXCEPT ![f] = [ref_count |-> 0, path |-> NoPath]]
         ELSE [heap EXCEPT ![f].ref_count = @ - 1]

\* g_date_time_ref
g_date_time_ref(heap, t) == [heap EXCEPT ![t] = @ + 1]

\* g_date_time_unref
g_date_time_unref(heap, t) == [heap EXCEPT ![t] = @ - 1]

\* g_set_object without its g_object_ref: a plain `priv->file = file`
g_set_object_no_ref(heap, old, new) ==
    IF old = new THEN heap
    ELSE file_unref(heap, old)

\* g_set_object(&priv->file, file): the heap afterwards
g_set_object(heap, old, new) ==
    IF old = new THEN heap
    ELSE file_unref(file_ref(heap, new), old)

\* identities not in use, which an allocation may return
FreeFiles == {f \in FileIds : gfile[f].ref_count = 0}
FreeDateTimes == {t \in DateTimeIds : gdatetime[t] = 0}
Lowest(S) == CHOOSE x \in S : \A y \in S : x <= y

-----------------------------------------------------------------------------
(* Construction *)

\* passim_item_init on the zero-filled instance
passim_item_init ==
    [hash |-> NULL, basename |-> NULL,
     max_age |-> 24 * 60 * 60, share_limit |-> 5, share_count |-> 0,
     file |-> 0, ctime |-> 0]

NoVariant == [status |-> "none", dict |-> <<>>]
NoItem == [status |-> "none", priv |-> passim_item_init]
Call(op, arg, ret, error, info, read) ==
    [op |-> op, arg |-> arg, ret |-> ret, error |-> error, info |-> info, read |-> read]

\* the heaps while the item holds nothing: the caller owns one reference to
\* each object it created
CallerFileHeap ==
    [f \in FileIds |-> IF f \in CallerFiles
                       THEN [ref_count |-> 1, path |-> CallerFilePath(f)]
                       ELSE [ref_count |-> 0, path |-> NoPath]]
CallerDateTimeHeap ==
    [t \in DateTimeIds |-> IF t \in CallerDateTimes THEN 1 ELSE 0]

Init ==
    /\ priv = passim_item_init
    /\ alive = TRUE
    /\ gfile = CallerFileHeap
    /\ gdatetime = CallerDateTimeHeap
    /\ variant = NoVariant
    /\ item = NoItem
    /\ last = Call("new", "", "item", "none", "none", "none")

\* passim_item_new, once the previous item is gone
passim_item_new ==
    /\ ~alive
    /\ alive' = TRUE
    /\ priv' = passim_item_init
    /\ last' = Call("new", "", "item", "none", "none", "none")
    /\ UNCHANGED <<gfile, gdatetime, variant, item>>

-----------------------------------------------------------------------------
(* Accessors *)

\* passim_item_set_hash without the `not changed` return
passim_item_set_hash_ungated(hash) ==
    /\ alive
    /\ priv' = [priv EXCEPT !.hash = g_strdup(hash)]
    /\ last' = Call("set_hash", hash, "void", "none", "stored", "none")
    /\ UNCHANGED <<alive, gfile, gdatetime, variant, item>>

passim_item_set_hash(hash) ==
    /\ alive
    /\ priv' = IF g_strcmp0(priv.hash, hash) = 0
               THEN priv
               ELSE [priv EXCEPT !.hash = g_strdup(hash)]
    /\ last' = Call("set_hash", hash, "void", "none",
                     IF g_strcmp0(priv.hash, hash) = 0 THEN "not changed" ELSE "stored",
                     "none")
    /\ UNCHANGED <<alive, gfile, gdatetime, variant, item>>

passim_item_set_basename(basename) ==
    /\ alive
    /\ priv' = IF g_strcmp0(priv.basename, basename) = 0
               THEN priv
               ELSE [priv EXCEPT !.basename = g_strdup(basename)]
    /\ last' = Call("set_basename", basename, "void", "none",
                     IF g_strcmp0(priv.basename, basename) = 0 THEN "not changed" ELSE "stored",
                     "none")
    /\ UNCHANGED <<alive, gfile, gdatetime, variant, item>>

passim_item_set_max_age(max_age) ==
    /\ alive
    /\ priv' = [priv EXCEPT !.max_age = max_age]
    /\ last' = Call("set_max_age", max_age, "void", "none", "none", "none")
    /\ UNCHANGED <<alive, gfile, gdatetime, variant, item>>

passim_item_set_share_limit(share_limit) ==
    /\ alive
    /\ priv' = [priv EXCEPT !.share_limit = share_limit]
    /\ last' = Call("set_share_limit", share_limit, "void", "none", "none", "none")
    /\ UNCHANGED <<alive, gfile, gdatetime, variant, item>>

passim_item_set_share_count(share_count) ==
    /\ alive
    /\ priv' = [priv EXCEPT !.share_count = share_count]
    /\ last' = Call("set_share_count", share_count, "void", "none", "none", "none")
    /\ UNCHANGED <<alive, gfile, gdatetime, variant, item>>

passim_item_set_file(file) ==
    /\ alive
    /\ gfile' = g_set_object(gfile, priv.file, file)
    /\ priv' = [priv EXCEPT !.file = file]
    /\ last' = Call("set_file", file, "void", "none", "none", "none")
    /\ UNCHANGED <<alive, gdatetime, variant, item>>

\* the GDateTime heap after passim_item_set_ctime
set_ctime_heap(heap, old, ctime) ==
    IF old = ctime THEN heap
    ELSE LET released == IF old # 0 THEN g_date_time_unref(heap, old) ELSE heap
         IN  IF ctime # 0 THEN g_date_time_ref(released, ctime) ELSE released

passim_item_set_ctime(ctime) ==
    /\ alive
    /\ (ctime # 0 /\ ctime # priv.ctime) => gdatetime[ctime] < MaxRefCount
    /\ gdatetime' = set_ctime_heap(gdatetime, priv.ctime, ctime)
    /\ priv' = [priv EXCEPT !.ctime = ctime]
    /\ last' = Call("set_ctime", ctime, "void", "none", "none", "none")
    /\ UNCHANGED <<alive, gfile, variant, item>>

-----------------------------------------------------------------------------
(* Loading from a file *)

\* what g_file_query_info and g_file_info_get_creation_date_time can report:
\* no info (error set), info without a creation time, info with one
QueryOutcomes == {"error", "no_created", "created"}

\* what g_file_get_contents can report: an error or the bytes of the file
ReadOutcomes == {"error"} \cup Contents

\* passim_compute_checksum_for_filename: NULL with the error set, or the digest
passim_compute_checksum_for_filename(read) ==
    IF read = "error" THEN NULL ELSE g_compute_checksum_for_data(read)

\* the basename assignment without its `if (priv->basename == NULL)`
load_basename_clobber(p, filename) ==
    [p EXCEPT !.basename = g_path_get_basename(filename)]

\* the fields after `if (priv->basename == NULL) priv->basename = ...`
load_basename(p, filename) ==
    IF p.basename = NULL
    THEN [p EXCEPT !.basename = g_path_get_basename(filename)]
    ELSE p

\* the fields after `priv->ctime = g_file_info_get_creation_date_time(info)`
load_ctime(p, created) == [p EXCEPT !.ctime = created]

\* the GDateTime heap after that assignment: the new object, if any, arrives
\* with the one reference the item now owns
load_ctime_heap(heap, old, created) ==
    IF created = 0 THEN heap ELSE [heap EXCEPT ![created] = 1]

passim_item_load_filename(filename, query, read) ==
    /\ alive
    /\ FreeFiles # {}
    /\ query = "created" => FreeDateTimes # {}
    /\ LET file == Lowest(FreeFiles)
           \* g_file_new_for_path: one reference, owned by the g_autoptr
           created_heap == [gfile EXCEPT ![file] = [ref_count |-> 1, path |-> filename]]
           \* passim_item_set_file, then the g_autoptr cleanup on return
           file_heap == file_unref(g_set_object(created_heap, priv.file, file), file)
           p1 == [priv EXCEPT !.file = file]
           created == IF query = "created" THEN Lowest(FreeDateTimes) ELSE 0
           p3 == load_ctime(p1, created)
           p4 == load_basename(p3, filename)
           digest == passim_compute_checksum_for_filename(read)
       IN  /\ gfile' = file_heap
           /\ IF query = "error"
              THEN /\ priv' = p1
                   /\ gdatetime' = gdatetime
                   /\ last' = Call("load_filename", filename, FALSE, "G_IO_ERROR",
                                   query, "none")
              ELSE /\ gdatetime' = load_ctime_heap(gdatetime, priv.ctime, created)
                   /\ IF p4.hash # NULL
                      THEN /\ priv' = p4
                           /\ last' = Call("load_filename", filename, TRUE, "none",
                                           query, "none")
                      ELSE /\ priv' = [p4 EXCEPT !.hash = digest]
                           /\ last' = IF digest = NULL
                                      THEN Call("load_filename", filename, FALSE,
                                                "G_FILE_ERROR", query, read)
                                      ELSE Call("load_filename", filename, TRUE,
                                                "none", query, read)
    /\ UNCHANGED <<alive, variant, item>>

\* a load reads the file only while no hash is set
LoadFilename ==
    \E filename \in Filenames, query \in QueryOutcomes :
        IF query # "error" /\ priv.hash = NULL
        THEN \E read \in ReadOutcomes : passim_item_load_filename(filename, query, read)
        ELSE passim_item_load_filename(filename, query, "error")

-----------------------------------------------------------------------------
(* Destruction *)

passim_item_finalize ==
    /\ alive
    /\ gfile' = file_unref(gfile, priv.file)
    /\ gdatetime' = IF priv.ctime # 0 THEN g_date_time_unref(gdatetime, priv.ctime)
                    ELSE gdatetime
    /\ alive' = FALSE
    \* the instance is freed; priv shows what the next instance starts from
    /\ priv' = passim_item_init
    /\ last' = Call("finalize", "", "void", "none", "none", "none")
    /\ UNCHANGED <<variant, item>>

-----------------------------------------------------------------------------
(* The item in the hands of its caller *)

SetHash == \E hash \in StringArgs : passim_item_set_hash(hash)
SetBasename == \E basename \in StringArgs : passim_item_set_basename(basename)
SetMaxAge == \E max_age \in U32Samples : passim_item_set_max_age(max_age)
SetShareLimit == \E share_limit \in U32Samples : passim_item_set_share_limit(share_limit)
SetShareCount == \E share_count \in U32Samples : passim_item_set_share_count(share_count)
SetFile == \E file \in {0} \cup CallerFiles : passim_item_set_file(file)
SetCtime == \E ctime \in {0} \cup CallerDateTimes : passim_item_set_ctime(ctime)

Next ==
    \/ passim_item_new
    \/ SetHash
    \/ SetBasename
    \/ SetMaxAge
    \/ SetShareLimit
    \/ SetShareCount
    \/ SetFile
    \/ SetCtime
    \/ LoadFilename
    \/ passim_item_finalize

Spec == Init /\ [][Next]_vars

-----------------------------------------------------------------------------
(* The GVariant codec *)

\* a{sv} entries: the key and the boxed value, a string ("s") or a guint32 ("u")
StringEntry(key, str) == [key |-> key, type |-> "s", s |-> str, u |-> 0]
U32Entry(key, n) == [key |-> key, type |-> "u", s |-> "", u |-> n]

Absent == [key |-> "", type |-> "", s |-> "", u |-> 0]

\* g_variant_new_string: its argument must not be NULL; a NULL makes it log a
\* critical warning and return no value, or aborts the process when critical
\* warnings are fatal
g_variant_new_string(key, str) ==
    IF str = NULL
    THEN {[how |-> "critical", entry |-> Absent], [how |-> "abort", entry |-> Absent]}
    ELSE {[how |-> "value", entry |-> StringEntry(key, str[1])]}

\* passim_item_to_variant with share_limit boxed under "share-count" as well
passim_item_to_variant_swapped(p) ==
    LET filename == g_variant_new_string("filename", p.basename)
        hash == g_variant_new_string("hash", p.hash)
        failures == {r.how : r \in filename \cup hash} \ {"value"}
    IN  IF failures # {}
        THEN {[status |-> f, dict |-> <<>>] : f \in failures}
        ELSE {[status |-> "dict",
               dict |-> <<e.entry, h.entry,
                          U32Entry("max-age", p.max_age),
                          U32Entry("share-limit", p.share_limit),
                          U32Entry("share-count", p.share_limit)>>] :
                    e \in filename, h \in hash}

\* passim_item_to_variant: every result the call can have. The dictionary is
\* built only if both strings could be boxed.
passim_item_to_variant(p) ==
    LET filename == g_variant_new_string("filename", p.basename)
        hash == g_variant_new_string("hash", p.hash)
        failures == {r.how : r \in filename \cup hash} \ {"value"}
    IN  IF failures # {}
        THEN {[status |-> f, dict |-> <<>>] : f \in failures}
        ELSE {[status |-> "dict",
               dict |-> <<e.entry, h.entry,
                          U32Entry("max-age", p.max_age),
                          U32Entry("share-limit", p.share_limit),
                          U32Entry("share-count", p.share_count)>>] :
                    e \in filename, h \in hash}

\* one turn of the loop of passim_item_from_variant
from_variant_entry(p, e) ==
    LET p1 == IF g_strcmp0(e.key, "filename") = 0
              THEN [p EXCEPT !.basename = Str(e.s)] ELSE p
        p2 == IF g_strcmp0(e.key, "hash") = 0
              THEN [p1 EXCEPT !.hash = Str(e.s)] ELSE p1
        p3 == IF g_strcmp0(e.key, "max-age") = 0
              THEN [p2 EXCEPT !.max_age = e.u] ELSE p2
        p4 == IF g_strcmp0(e.key, "share-limit") = 0
              THEN [p3 EXCEPT !.share_limit = e.u] ELSE p3
        p5 == IF g_strcmp0(e.key, "share-count") = 0
              THEN [p4 EXCEPT !.share_count = e.u] ELSE p4
    IN  p5

RECURSIVE from_variant_loop(_, _)
from_variant_loop(p, entries) ==
    IF entries = <<>> THEN p
    ELSE from_variant_loop(from_variant_entry(p, Head(entries)), Tail(entries))

\* passim_item_from_variant on an instance passim_item_init has not run on
passim_item_from_variant_zeroed(dict) ==
    from_variant_loop([passim_item_init EXCEPT !.max_age = 0, !.share_limit = 0], dict)

\* passim_item_from_variant: the fields of the new item
passim_item_from_variant(dict) == from_variant_loop(passim_item_init, dict)

ToVariant ==
    /\ alive
    /\ \E v \in passim_item_to_variant(priv) :
          /\ variant' = v
          /\ last' = Call("to_variant", "", v.status, "none", "none", "none")
    /\ UNCHANGED <<priv, alive, gfile, gdatetime, item>>

\* the caller decodes the variant it holds: one it received, or the one
\* passim_item_to_variant has just given it ("encoded")
FromVariant ==
    /\ variant.status = "dict"
    /\ item' = [status |-> "item", priv |-> passim_item_from_variant(variant.dict)]
    /\ last' = Call("from_variant",
                    IF last.op = "to_variant"
                       \/ (last.op = "from_variant" /\ last.arg = "encoded")
                    THEN "encoded" ELSE "received",
                    "item", "none", "none", "none")
    /\ UNCHANGED <<priv, alive, gfile, gdatetime, variant>>

\* the keys passim_item_from_variant knows, and one it does not
RecognizedKeys == <<"filename", "hash", "max-age", "share-limit", "share-count">>
WireKeys == RecognizedKeys \o <<"unknown-key">>

\* the well-typed values a key can carry
WireValues(key) ==
    IF key \in {"filename", "hash"} THEN {StringEntry(key, s) : s \in StringSamples}
    ELSE IF key = "unknown-key" THEN {U32Entry(key, 1), StringEntry(key, "abc")}
    ELSE {U32Entry(key, n) : n \in WireU32Samples}

RECURSIVE Reverse(_)
Reverse(q) == IF q = <<>> THEN <<>> ELSE Reverse(Tail(q)) \o <<Head(q)>>

\* the dictionaries over the first n keys: every key absent or present with
\* one of its values
RECURSIVE DictsOver(_)
DictsOver(n) ==
    IF n = 0 THEN {<<>>}
    ELSE LET shorter == DictsOver(n - 1)
         IN  shorter \cup {d \o <<e>> : d \in shorter, e \in WireValues(WireKeys[n])}

\* the dictionaries a caller may hand over, their entries in either order
ReceivedDicts ==
    LET dicts == DictsOver(Len(WireKeys))
    IN  dicts \cup {Reverse(d) : d \in dicts}

\* the items a caller may hold: every combination of field values the setters
\* can produce, with the references the item then owns
HeldItems ==
    [hash : {NULL} \cup {Str(s) : s \in StringSamples},
     basename : {NULL} \cup {Str(s) : s \in StringSamples},
     max_age : WireU32Samples \cup {passim_item_init.max_age},
     share_limit : WireU32Samples \cup {passim_item_init.share_limit},
     share_count : WireU32Samples,
     file : {0} \cup CallerFiles, ctime : {0} \cup CallerDateTimes]

InitCodec ==
    /\ alive = TRUE
    /\ item = NoItem
    /\ last = Call("new", "", "item", "none", "none", "none")
    /\ \/ /\ priv \in HeldItems
          /\ variant = NoVariant
       \/ /\ priv = passim_item_init
          /\ variant \in {[status |-> "dict", dict |-> d] : d \in ReceivedDicts}
    /\ gfile = g_set_object(CallerFileHeap, 0, priv.file)
    /\ gdatetime = set_ctime_heap(CallerDateTimeHeap, 0, priv.ctime)

NextCodec ==
    \/ ToVariant
    \/ FromVariant

SpecCodec == InitCodec /\ [][NextCodec]_vars

-----------------------------------------------------------------------------
(* Vocabulary of the properties *)

\* the call made last is a load / the step being taken is a load
Loaded == last.op = "load_filename"
Loading == last'.op = "load_filename"

\* the error kinds GIO and GLib report for failed file operations
IOError(error) == error \in {"G_IO_ERROR", "G_FILE_ERROR"}

\* the last element of a filename that is not empty; the root for "/"
FinalComponent(filename) ==
    LET named == {i \in 1..Len(filename) : filename[i] # ""}
    IN  IF named = {} THEN "/"
        ELSE filename[CHOOSE i \in named : \A j \in named : j <= i]

\* SHA-256 of the two contents, in lowercase hexadecimal
Sha256Hex(content) ==
    CASE content = "hello" ->
            "2cf24dba5fb0a30e26e83b2ac5b9e29e1b161e5c1fa7425e73043362938b9824"
      [] content = "" ->
            "e3b0c44298fc1c149afbf4c8996fb92427ae41e4649b934ca495991b7852b855"

\* references to an object that are not the caller's own
ItemFileRefs(f) == gfile[f].ref_count - (IF f \in CallerFiles THEN 1 ELSE 0)
ItemDateTimeRefs(t) == gdatetime[t] - (IF t \in CallerDateTimes THEN 1 ELSE 0)

\* the entries of a dictionary under a key
EntriesOf(dict, key) == {i \in 1..Len(dict) : dict[i].key = key}
HasKey(dict, key) == EntriesOf(dict, key) # {}
ValueOf(dict, key) == dict[CHOOSE i \in EntriesOf(dict, key) : TRUE]
KeysOf(dict) == {dict[i].key : i \in 1..Len(dict)}

SameWireFields(p, q) ==
    /\ p.basename = q.basename
    /\ p.hash = q.hash
    /\ p.max_age = q.max_age
    /\ p.share_limit = q.share_limit
    /\ p.share_count = q.share_count

-----------------------------------------------------------------------------
(* Properties of the codec, under SpecCodec *)

\* C1: an item whose basename and hash are set is always encoded to a
\* dictionary, and decoding that dictionary gives an item with the same
\* basename, hash, max_age, share_limit and share_count.
RoundTrip ==
    (priv.basename # NULL /\ priv.hash # NULL) =>
        /\ last.op = "to_variant" => variant.status = "dict"
        /\ (last.op = "from_variant" /\ last.arg = "encoded") =>
               /\ item.status = "item"
               /\ SameWireFields(item.priv, priv)

RoundTripWitness ==
    /\ last.op = "from_variant" /\ last.arg = "encoded"
    /\ priv.basename = Str("") /\ priv.hash = Str("abc")
    /\ priv.max_age = 2147483647 /\ priv.share_limit = 0 /\ priv.share_count = 7
    /\ priv.file # 0
    /\ item.priv.hash = Str("abc")

\* C2: encoding an item whose basename or hash is unset gives a dictionary in
\* which the unset field is the empty string.
EncodesUnsetAsEmpty ==
    (last.op = "to_variant" /\ (priv.basename = NULL \/ priv.hash = NULL)) =>
        /\ variant.status = "dict"
        /\ priv.basename = NULL =>
               /\ HasKey(variant.dict, "filename")
               /\ ValueOf(variant.dict, "filename").s = ""
        /\ priv.hash = NULL =>
               /\ HasKey(variant.dict, "hash")
               /\ ValueOf(variant.dict, "hash").s = ""

\* C5: decoding a well-typed dictionary always gives an item; a recognized
\* key that is present gives its field the value it carries, one that is
\* absent leaves the default of construction, and nothing else changes.
PermissiveDecode ==
    last.op = "from_variant" =>
        LET d == variant.dict
            p == item.priv
        IN  /\ item.status = "item"
            /\ p.basename = IF HasKey(d, "filename")
                            THEN Str(ValueOf(d, "filename").s) ELSE NULL
            /\ p.hash = IF HasKey(d, "hash") THEN Str(ValueOf(d, "hash").s) ELSE NULL
            /\ p.max_age = IF HasKey(d, "max-age") THEN ValueOf(d, "max-age").u ELSE 86400
            /\ p.share_limit = IF HasKey(d, "share-limit")
                               THEN ValueOf(d, "share-limit").u ELSE 5
            /\ p.share_count = IF HasKey(d, "share-count")
                               THEN ValueOf(d, "share-count").u ELSE 0
            /\ p.file = 0
            /\ p.ctime = 0

PermissiveDecodeWitness ==
    /\ last.op = "from_variant" /\ last.arg = "received"
    /\ KeysOf(variant.dict) = {"hash", "unknown-key"}
    /\ item.priv.hash = Str("abc")
    /\ item.priv.basename = NULL
    /\ item.priv.max_age = 86400

\* C8: every item is encoded to a dictionary of exactly the five keys, and
\* the encoding does not depend on file and ctime.
EncodingIgnoresHandles ==
    last.op = "to_variant" =>
        /\ variant.status = "dict"
        /\ Len(variant.dict) = 5
        /\ KeysOf(variant.dict) =
               {"filename", "hash", "max-age", "share-limit", "share-count"}
        /\ \A f \in {0} \cup CallerFiles, t \in {0} \cup CallerDateTimes :
               passim_item_to_variant([priv EXCEPT !.file = f, !.ctime = t])
                   = passim_item_to_variant(priv)

-----------------------------------------------------------------------------
(* Properties of the item and its loader, under Spec *)

\* C3: a load whose metadata query fails returns FALSE with an I/O error,
\* leaves file set to a new handle for the filename, and leaves basename and
\* hash as they were.
LoadMetadataFailure ==
    [][(Loading /\ last'.info = "error") =>
          /\ last'.ret = FALSE
          /\ IOError(last'.error)
          /\ priv'.file # 0
          /\ priv'.file # priv.file
          /\ gfile'[priv'.file].ref_count > 0
          /\ gfile'[priv'.file].path = last'.arg
          /\ priv'.basename = priv.basename
          /\ priv'.hash = priv.hash]_vars

LoadMetadataFailureWitness ==
    /\ Loaded /\ last.info = "error" /\ last.ret = FALSE
    /\ priv.basename = NULL
    /\ priv.hash = Str("abc")
    /\ priv.file # 0 /\ gfile[priv.file].path = <<"b", "">>

\* C4: a load never changes a basename or a hash that was set; it sets an
\* unset basename to the final component of the filename once the metadata
\* query has succeeded, and an unset hash to the digest of the content when
\* it succeeds.
LoaderNonClobber ==
    [][Loading =>
          /\ priv.basename # NULL => priv'.basename = priv.basename
          /\ priv.hash # NULL => priv'.hash = priv.hash
          /\ (priv.basename = NULL /\ last'.info # "error") =>
                 priv'.basename = Str(FinalComponent(last'.arg))
          /\ (priv.hash = NULL /\ last'.ret = TRUE) =>
                 priv'.hash = Str(Sha256Hex(last'.read))]_vars

LoaderNonClobberWitness ==
    /\ Loaded /\ last.ret = TRUE /\ last.arg = <<"", "tmp", "a.bin">>
    /\ priv.basename = Str("abc")
    /\ priv.hash = Str(Sha256Hex("hello"))

\* C6: the item holds one reference to its file and one to its ctime and no
\* reference to any other object; once destroyed it holds none.
SharedHandleOwnership ==
    /\ \A f \in FileIds :
           ItemFileRefs(f) = IF alive /\ f = priv.file THEN 1 ELSE 0
    /\ \A t \in DateTimeIds :
           ItemDateTimeRefs(t) = IF alive /\ t = priv.ctime THEN 1 ELSE 0

\* C7: passim_item_set_hash and passim_item_set_basename store nothing when
\* given the value the field has, and otherwise change that field only.
EqualityGatedSetters ==
    [][/\ last'.op = "set_hash" =>
            IF last'.arg = priv.hash
            THEN last'.info = "not changed" /\ UNCHANGED <<priv, alive, gfile, gdatetime>>
            ELSE /\ priv' = [priv EXCEPT !.hash = last'.arg]
                 /\ UNCHANGED <<alive, gfile, gdatetime>>
       /\ last'.op = "set_basename" =>
            IF last'.arg = priv.basename
            THEN last'.info = "not changed" /\ UNCHANGED <<priv, alive, gfile, gdatetime>>
            ELSE /\ priv' = [priv EXCEPT !.basename = last'.arg]
                 /\ UNCHANGED <<alive, gfile, gdatetime>>]_vars

EqualityGatedSettersWitness ==
    /\ last.op = "set_hash" /\ last.info = "not changed"
    /\ last.arg = priv.hash /\ priv.hash = Str("abc")
    /\ priv.basename # NULL /\ priv.file # 0

\* C9: a load that returns TRUE has set file to the handle for the filename,
\* ctime to the creation time it obtained, and basename and hash; a load that
\* finds no creation time in the metadata does not return TRUE.
SuccessMeansComplete ==
    Loaded =>
        /\ last.ret = TRUE =>
               /\ priv.file # 0 /\ gfile[priv.file].path = last.arg
               /\ priv.ctime # 0
               /\ priv.basename # NULL
               /\ priv.hash # NULL
        /\ last.info = "no_created" => (last.ret = FALSE /\ IOError(last.error))

\* C10: a load with no hash set whose metadata query succeeds and whose read
\* fails returns FALSE with an I/O error, leaves hash unset, leaves file,
\* ctime and basename set, and leaves the three numbers as they were.
LoadReadFailure ==
    [][(Loading /\ priv.hash = NULL /\ last'.info # "error" /\ last'.read = "error") =>
          /\ last'.ret = FALSE
          /\ IOError(last'.error)
          /\ priv'.hash = NULL
          /\ priv'.file # 0 /\ gfile'[priv'.file].path = last'.arg
          /\ priv'.ctime # 0
          /\ priv'.basename # NULL
          /\ priv'.max_age = priv.max_age
          /\ priv'.share_limit = priv.share_limit
          /\ priv'.share_count = priv.share_count]_vars

====
